---- MODULE Spec2Model ----
(***************************************************************************)
(* Counter-input channel collection of nidaqmx-python                      *)
(* (nidaqmx/_task_modules/ci_channel_collection.py).                       *)
(*                                                                         *)
(* A CIChannelCollection is built around a task handle.  Each add_ci_*     *)
(* method marshals its arguments into one native driver call, hands the    *)
(* returned status to check_for_error and then builds the CIChannel with   *)
(* _create_chan, which resolves the virtual channel name.                  *)
(*                                                                         *)
(* Python strings that the code inspects (the counter specifier and the    *)
(* name to assign) are sequences of one-character strings, so that         *)
(* formatting and parsing are computed, not assumed.  Strings the code     *)
(* only passes through (custom scale name, source terminal) are atoms.     *)
(***************************************************************************)
EXTENDS Integers, Sequences, FiniteSets, TLC

VARIABLES handle, channels, last

vars == <<handle, channels, last>>

(***************************************************************************)
(* Bounds of the model.                                                    *)
(***************************************************************************)
MaxChans == 2

(***************************************************************************)
(* Text helpers.                                                           *)
(***************************************************************************)
Digits == <<"0", "1", "2", "3", "4", "5", "6", "7", "8", "9">>

IsDigit(c) == \E i \in 1..10 : Digits[i] = c

DigitVal(c) == (CHOOSE i \in 1..10 : Digits[i] = c) - 1

RECURSIVE ToDecimal(_)
ToDecimal(n) ==
    IF n < 10 THEN <<Digits[n + 1]>>
    ELSE ToDecimal(n \div 10) \o <<Digits[(n % 10) + 1]>>

RECURSIVE ParseNat(_)
ParseNat(ds) ==
    IF ds = <<>> THEN 0
    ELSE 10 * ParseNat(SubSeq(ds, 1, Len(ds) - 1)) + DigitVal(ds[Len(ds)])

AllDigits(s) == \A i \in 1..Len(s) : IsDigit(s[i])

IndexOf(s, c) ==
    IF \E i \in 1..Len(s) : s[i] = c
    THEN CHOOSE i \in 1..Len(s) : s[i] = c /\ \A j \in 1..(i - 1) : s[j] # c
    ELSE 0

RECURSIVE NumTrailingDigits(_)
NumTrailingDigits(s) ==
    IF s = <<>> \/ ~IsDigit(s[Len(s)]) THEN 0
    ELSE 1 + NumTrailingDigits(SubSeq(s, 1, Len(s) - 1))

RECURSIVE SplitList(_)
SplitList(s) ==
    IF IndexOf(s, ",") = 0 THEN <<s>>
    ELSE <<SubSeq(s, 1, IndexOf(s, ",") - 1)>>
             \o SplitList(SubSeq(s, IndexOf(s, ",") + 1, Len(s)))

(***************************************************************************)
(* Channel-string expansion (unflatten_channel_string).  The result is     *)
(* either the ordered names or a malformed-specifier error.                *)
(***************************************************************************)
Malformed == [err |-> TRUE, names |-> <<>>]

Expanded(ns) == [err |-> FALSE, names |-> ns]

\* Variant of ExpandRange: the name of the upper bound is left out.
ExpandRange_LastDropped(prefix, lo, hi) ==
    IF hi < lo THEN Malformed
    ELSE Expanded([i \in 1..(hi - lo) |-> prefix \o ToDecimal(lo + i - 1)])

\* The names prefix<lo> .. prefix<hi>, in ascending order; inverted bounds
\* are malformed.
ExpandRange(prefix, lo, hi) ==
    IF hi < lo THEN Malformed
    ELSE Expanded([i \in 1..(hi - lo + 1) |-> prefix \o ToDecimal(lo + i - 1)])

\* before ends in nd digits (the lower bound); after is the upper bound.
\* Non-numeric bounds are malformed.
ExpandBounds(before, after, nd) ==
    IF nd = 0 \/ after = <<>> \/ ~AllDigits(after) THEN Malformed
    ELSE ExpandRange(SubSeq(before, 1, Len(before) - nd),
                     ParseNat(SubSeq(before, Len(before) - nd + 1, Len(before))),
                     ParseNat(after))

\* One element of a comma list, with k the place of its first colon (0 if
\* it has none): a single name, or a range a:b.
ExpandAt(p, k) ==
    IF k = 0 THEN Expanded(<<p>>)
    ELSE ExpandBounds(SubSeq(p, 1, k - 1), SubSeq(p, k + 1, Len(p)),
                      NumTrailingDigits(SubSeq(p, 1, k - 1)))

ExpandPart(p) == ExpandAt(p, IndexOf(p, ":"))

JoinExpanded(h, t) ==
    IF h.err \/ t.err THEN Malformed ELSE Expanded(h.names \o t.names)

RECURSIVE ExpandParts(_)
ExpandParts(ps) ==
    IF ps = <<>> THEN Expanded(<<>>)
    ELSE JoinExpanded(ExpandPart(Head(ps)), ExpandParts(Tail(ps)))

unflatten_channel_string(s) == ExpandParts(SplitList(s))

(***************************************************************************)
(* Inputs of the model: counter specifiers, names to assign, task handles  *)
(* and driver status codes.                                                *)
(***************************************************************************)
Ctr0 == <<"c", "t", "r", "0">>

Dev1Ctr0to3 == <<"D", "e", "v", "1", "/", "c", "t", "r", "0", ":", "3">>

Ctr0to9Ctr12 == <<"c", "t", "r", "0", ":", "9", ",", "c", "t", "r", "1", "2">>

Ctr3to0 == <<"c", "t", "r", "3", ":", "0">>

CtrXto2 == <<"c", "t", "r", "X", ":", "2">>

Specifiers == {Ctr0, Dev1Ctr0to3, Ctr0to9Ctr12, Ctr3to0, CtrXto2}

MyCtr == <<"m", "y", "c", "t", "r">>

\* A name to assign that ends in a digit.
Ch1 == <<"c", "h", "1">>

Aliases == {<<>>, MyCtr, Ch1}

Handles == {1, 2}

Statuses == {-1, 0, 1}

(***************************************************************************)
(* Numbers handed to the driver as doubles: m * 10^e with one-digit m.     *)
(***************************************************************************)
F(m, e) == [m |-> m, e |-> e]

RangePairs(lo, hi) == {<<lo, hi>>, <<lo, lo>>, <<hi, lo>>}

(***************************************************************************)
(* The declared default minimum and maximum of every creation operation    *)
(* that has a numeric range.                                               *)
(***************************************************************************)
\* Variant of DefaultRange: the defaults of add_ci_duty_cycle_chan are
\* declared the other way round.
DefaultRange_Inverted ==
    [add_ci_ang_velocity_chan |-> <<F(0, 0), F(1, 0)>>,
     add_ci_duty_cycle_chan |-> <<F(1, 4), F(2, 0)>>,
     add_ci_freq_chan |-> <<F(2, 0), F(1, 2)>>,
     add_ci_lin_velocity_chan |-> <<F(0, 0), F(1, 0)>>,
     add_ci_period_chan |-> <<F(1, -6), F(1, -1)>>,
     add_ci_pulse_chan_freq |-> <<F(1, 3), F(1, 6)>>,
     add_ci_pulse_chan_ticks |-> <<F(1, 3), F(1, 6)>>,
     add_ci_pulse_chan_time |-> <<F(1, -6), F(1, -3)>>,
     add_ci_pulse_width_chan |-> <<F(1, -6), F(1, -1)>>,
     add_ci_semi_period_chan |-> <<F(1, -6), F(1, -1)>>,
     add_ci_two_edge_sep_chan |-> <<F(1, -6), F(1, 0)>>]

DefaultRange ==
    [add_ci_ang_velocity_chan |-> <<F(0, 0), F(1, 0)>>,
     add_ci_duty_cycle_chan |-> <<F(2, 0), F(1, 4)>>,
     add_ci_freq_chan |-> <<F(2, 0), F(1, 2)>>,
     add_ci_lin_velocity_chan |-> <<F(0, 0), F(1, 0)>>,
     add_ci_period_chan |-> <<F(1, -6), F(1, -1)>>,
     add_ci_pulse_chan_freq |-> <<F(1, 3), F(1, 6)>>,
     add_ci_pulse_chan_ticks |-> <<F(1, 3), F(1, 6)>>,
     add_ci_pulse_chan_time |-> <<F(1, -6), F(1, -3)>>,
     add_ci_pulse_width_chan |-> <<F(1, -6), F(1, -1)>>,
     add_ci_semi_period_chan |-> <<F(1, -6), F(1, -1)>>,
     add_ci_two_edge_sep_chan |-> <<F(1, -6), F(1, 0)>>]

(***************************************************************************)
(* Members of the enumerations of nidaqmx.constants used by the counter    *)
(* input channels.                                                         *)
(***************************************************************************)
Member(e, n, v) == [enum |-> e, name |-> n, value |-> v]

\* A Python int: an object without the attribute value.
PyInt(n) == [int |-> n]

\* Whether reading x.value succeeds; it raises AttributeError otherwise.
HasValue(x) == "value" \in DOMAIN x

Edge == [RISING |-> Member("Edge", "RISING", 10280),
         FALLING |-> Member("Edge", "FALLING", 10171)]

EncoderType == [X_1 |-> Member("EncoderType", "X_1", 10090),
                X_4 |-> Member("EncoderType", "X_4", 10092)]

EncoderZIndexPhase ==
    [AHIGH_BHIGH |-> Member("EncoderZIndexPhase", "AHIGH_BHIGH", 10040),
     ALOW_BLOW |-> Member("EncoderZIndexPhase", "ALOW_BLOW", 10043)]

AngleUnits == [DEGREES |-> Member("AngleUnits", "DEGREES", 10146),
               RADIANS |-> Member("AngleUnits", "RADIANS", 10273)]

AngularVelocityUnits ==
    [RPM |-> Member("AngularVelocityUnits", "RPM", 16080),
     RADIANS_PER_SECOND |-> Member("AngularVelocityUnits", "RADIANS_PER_SECOND", 16081)]

CountDirection == [COUNT_UP |-> Member("CountDirection", "COUNT_UP", 10128),
                   COUNT_DOWN |-> Member("CountDirection", "COUNT_DOWN", 10124)]

CounterFrequencyMethod ==
    [LOW_FREQUENCY_1_COUNTER |->
         Member("CounterFrequencyMethod", "LOW_FREQUENCY_1_COUNTER", 10105),
     HIGH_FREQUENCY_2_COUNTERS |->
         Member("CounterFrequencyMethod", "HIGH_FREQUENCY_2_COUNTERS", 10157)]

FrequencyUnits == [HZ |-> Member("FrequencyUnits", "HZ", 10373),
                   TICKS |-> Member("FrequencyUnits", "TICKS", 10304)]

GpsSignalType == [IRIGB |-> Member("GpsSignalType", "IRIGB", 10070),
                  PPS |-> Member("GpsSignalType", "PPS", 10080)]

LengthUnits == [METERS |-> Member("LengthUnits", "METERS", 10219),
                INCHES |-> Member("LengthUnits", "INCHES", 10379)]

TimeUnits == [SECONDS |-> Member("TimeUnits", "SECONDS", 10364),
              TICKS |-> Member("TimeUnits", "TICKS", 10304)]

VelocityUnits ==
    [METERS_PER_SECOND |-> Member("VelocityUnits", "METERS_PER_SECOND", 15959),
     INCHES_PER_SECOND |-> Member("VelocityUnits", "INCHES_PER_SECOND", 15960)]

(***************************************************************************)
(* Collaborators of the collection: the CIChannel object, the owning       *)
(* task's channel collection, and the error translation.                   *)
(***************************************************************************)
CIChannel(h, name) == [handle |-> h, name |-> name]

NoChannel == [handle |-> 0, name |-> <<>>]

\* The owning task's channel collection: append-only, insertion-ordered.
\* No statement of the counter input collection adds to it; registration is
\* the collaborators' part.
Register(chs, c) == Append(chs, c)

NoError == [code |-> 0, message |-> ""]

\* The driver's message for a status code.
ErrorLookup(code) ==
    IF code = -1 THEN "bad terminal"
    ELSE IF code > 0 THEN "warning"
    ELSE ""

\* check_for_error: a negative status raises an error carrying the code and
\* the driver's message; a positive status (a warning) raises or is let
\* through, by policy; zero passes.
check_for_error(code, warn_raises) ==
    IF code < 0 \/ (code > 0 /\ warn_raises)
    THEN [raised |-> TRUE, error |-> [code |-> code, message |-> ErrorLookup(code)]]
    ELSE [raised |-> FALSE, error |-> NoError]

WarnPolicies(status) == IF status > 0 THEN BOOLEAN ELSE {FALSE}

(***************************************************************************)
(* CIChannelCollection._create_chan: name resolution and construction of   *)
(* the CIChannel.                                                          *)
(***************************************************************************)
\* Variant of ResolvedName: the suffix counts the channels instead of
\* naming the last ordinal.
ResolvedName_OffByOne(name_to_assign_to_channel, num_counters) ==
    IF num_counters > 1
    THEN name_to_assign_to_channel \o <<"0", ":">> \o ToDecimal(num_counters)
    ELSE name_to_assign_to_channel

\* Variant of ResolvedName: a single channel gets the ordinal suffix too.
ResolvedName_AlwaysSuffixed(name_to_assign_to_channel, num_counters) ==
    IF num_counters >= 1
    THEN name_to_assign_to_channel \o <<"0", ":">> \o ToDecimal(num_counters - 1)
    ELSE name_to_assign_to_channel

\* The virtual channel name for a non-empty name to assign and the
\* num_counters names the counter string expands to.
ResolvedName(name_to_assign_to_channel, num_counters) ==
    IF num_counters > 1
    THEN name_to_assign_to_channel \o <<"0", ":">> \o ToDecimal(num_counters - 1)
    ELSE name_to_assign_to_channel

\* The outcome of _create_chan given the expansion e of the counter string.
CreateNamed(h, name_to_assign_to_channel, e) ==
    IF e.err
    THEN [raised |-> TRUE, chan |-> NoChannel, events |-> <<"parse">>]
    ELSE [raised |-> FALSE,
          chan |-> CIChannel(h, ResolvedName(name_to_assign_to_channel,
                                             Len(e.names))),
          events |-> <<"parse", "construct">>]

\* Variant of _create_chan: without a name to assign, the channel is named
\* by the (empty) name to assign instead of the counter string.
_create_chan_CounterDropped(h, counter, name_to_assign_to_channel) ==
    IF name_to_assign_to_channel # <<>>
    THEN CreateNamed(h, name_to_assign_to_channel,
                     unflatten_channel_string(counter))
    ELSE [raised |-> FALSE, chan |-> CIChannel(h, name_to_assign_to_channel),
          events |-> <<"construct">>]

\* Variant of _create_chan: the counter string is parsed whether or not a
\* name to assign is given.
_create_chan_AlwaysParsed(h, counter, name_to_assign_to_channel) ==
    IF name_to_assign_to_channel # <<>>
    THEN CreateNamed(h, name_to_assign_to_channel,
                     unflatten_channel_string(counter))
    ELSE IF unflatten_channel_string(counter).err
    THEN [raised |-> TRUE, chan |-> NoChannel, events |-> <<"parse">>]
    ELSE [raised |-> FALSE, chan |-> CIChannel(h, counter),
          events |-> <<"parse", "construct">>]

_create_chan(h, counter, name_to_assign_to_channel) ==
    IF name_to_assign_to_channel # <<>>
    THEN CreateNamed(h, name_to_assign_to_channel,
                     unflatten_channel_string(counter))
    ELSE [raised |-> FALSE, chan |-> CIChannel(h, counter),
          events |-> <<"construct">>]

(***************************************************************************)
(* The state.                                                              *)
(*   handle    the task handle the collection was constructed with        *)
(*   channels  the owning task's channel collection                       *)
(*   last      the creation call whose outcome the caller now holds       *)
(*   A call records: the operation and its native entry point; the      *)
(*   counter string, name to assign and range it was given; the argtypes  *)
(*   it assigned to the native function; its parameters as the caller     *)
(*   supplied them; the arguments of the native call; the number of       *)
(*   native calls made; the status returned; the codes handed to          *)
(*   check_for_error; the outcome, error and result; the steps taken; the *)
(*   collection before the call.                                          *)
(***************************************************************************)
NoCall == [op |-> "none", entry |-> "none", counter |-> <<>>, alias |-> <<>>,
           range |-> <<>>, argtypes |-> <<>>, params |-> <<>>, args |-> <<>>,
           native |-> 0, status |-> 0, checked |-> <<>>,
           outcome |-> "none", error |-> NoError, result |-> NoChannel,
           events |-> <<>>, before |-> <<>>]

Init ==
    /\ handle \in Handles
    /\ channels = <<>>
    /\ last = NoCall

\* Variant of Outcome: the status is never checked.
Outcome_Unchecked(call, chk, made) ==
    IF made.raised
    THEN [call EXCEPT !.outcome = "MalformedSpecifierError",
                      !.events = @ \o made.events]
    ELSE [call EXCEPT !.outcome = "channel", !.result = made.chan,
                      !.events = @ \o made.events]

\* Variant of Outcome: a call whose status check raised returns the
\* channel as well.
Outcome_ErrorAndChannel(call, chk, made) ==
    IF chk.raised /\ ~made.raised
    THEN [call EXCEPT !.outcome = "DaqError", !.error = chk.error,
                      !.result = made.chan]
    ELSE IF chk.raised
    THEN [call EXCEPT !.outcome = "DaqError", !.error = chk.error]
    ELSE IF made.raised
    THEN [call EXCEPT !.outcome = "MalformedSpecifierError",
                      !.events = @ \o made.events]
    ELSE [call EXCEPT !.outcome = "channel", !.result = made.chan,
                      !.events = @ \o made.events]

\* How a creation call ends, as the caller sees it, given the call's record
\* so far, the result chk of check_for_error and the result made of
\* _create_chan (which runs only if check_for_error did not raise): the
\* error raised, or the channel returned.
Outcome(call, chk, made) ==
    IF chk.raised
    THEN [call EXCEPT !.outcome = "DaqError", !.error = chk.error]
    ELSE IF made.raised
    THEN [call EXCEPT !.outcome = "MalformedSpecifierError",
                      !.events = @ \o made.events]
    ELSE [call EXCEPT !.outcome = "channel", !.result = made.chan,
                      !.events = @ \o made.events]

\* Whether every argument whose value attribute the call reads has one.
AllHaveValue(enums) == \A i \in 1..Len(enums) : HasValue(enums[i])

\* What a creation call leaves when reading the value attribute of one of
\* its arguments raises: the argtypes are assigned, the native function is
\* not called.
ArgumentError(op, entry, argtypes, params, counter, name_to_assign_to_channel, range) ==
    [NoCall EXCEPT !.op = op, !.entry = entry, !.counter = counter,
                   !.alias = name_to_assign_to_channel,
                   !.range = range, !.argtypes = argtypes,
                   !.params = params,
                   !.outcome = "AttributeError",
                   !.events = <<"marshal">>]

\* Variant of Create: the native call receives the counter string in the
\* place of an empty name to assign.
Create_NamePassedResolved(op, entry, argtypes, params, enums, args, counter, name_to_assign_to_channel, range, status, warn_raises) ==
    IF AllHaveValue(enums)
    THEN Outcome([op |-> op, entry |-> entry, counter |-> counter,
                  alias |-> name_to_assign_to_channel, range |-> range,
                  argtypes |-> argtypes, params |-> params,
                  args |-> IF name_to_assign_to_channel = <<>>
                           THEN [args EXCEPT ![3] = counter]
                           ELSE args,
                  native |-> 1, status |-> status,
                  checked |-> <<status>>,
                  outcome |-> "none", error |-> NoError, result |-> NoChannel,
                  events |-> <<"marshal", "native", "check">>,
                  before |-> <<>>],
                 check_for_error(status, warn_raises),
                 _create_chan(handle, counter, name_to_assign_to_channel))
    ELSE ArgumentError(op, entry, argtypes, params, counter,
                       name_to_assign_to_channel, range)

\* Variant of Create: a native call that returned a negative status is
\* made a second time.
Create_Retried(op, entry, argtypes, params, enums, args, counter, name_to_assign_to_channel, range, status, warn_raises) ==
    IF AllHaveValue(enums)
    THEN Outcome([op |-> op, entry |-> entry, counter |-> counter,
                  alias |-> name_to_assign_to_channel, range |-> range,
                  argtypes |-> argtypes, params |-> params,
                  args |-> args,
                  native |-> IF status < 0 THEN 2 ELSE 1, status |-> status,
                  checked |-> <<status>>,
                  outcome |-> "none", error |-> NoError, result |-> NoChannel,
                  events |-> IF status < 0
                            THEN <<"marshal", "native", "native", "check">>
                            ELSE <<"marshal", "native", "check">>,
                  before |-> <<>>],
                 check_for_error(status, warn_raises),
                 _create_chan(handle, counter, name_to_assign_to_channel))
    ELSE ArgumentError(op, entry, argtypes, params, counter,
                       name_to_assign_to_channel, range)

\* Variant of Create: a positive status is not handed to check_for_error.
Create_WarningUnchecked(op, entry, argtypes, params, enums, args, counter, name_to_assign_to_channel, range, status, warn_raises) ==
    IF AllHaveValue(enums)
    THEN Outcome([op |-> op, entry |-> entry, counter |-> counter,
                  alias |-> name_to_assign_to_channel, range |-> range,
                  argtypes |-> argtypes, params |-> params,
                  args |-> args,
                  native |-> 1, status |-> status,
                  checked |-> IF status > 0 THEN <<>> ELSE <<status>>,
                  outcome |-> "none", error |-> NoError, result |-> NoChannel,
                  events |-> IF status > 0 THEN <<"marshal", "native">>
                            ELSE <<"marshal", "native", "check">>,
                  before |-> <<>>],
                 IF status > 0 THEN check_for_error(0, FALSE)
                 ELSE check_for_error(status, warn_raises),
                 _create_chan(handle, counter, name_to_assign_to_channel))
    ELSE ArgumentError(op, entry, argtypes, params, counter,
                       name_to_assign_to_channel, range)

\* Variant of Create: add_ci_freq_chan names its channel from the string
\* "Freq" in the place of the counter string.
Create_NamedByOperation(op, entry, argtypes, params, enums, args, counter, name_to_assign_to_channel, range, status, warn_raises) ==
    IF AllHaveValue(enums)
    THEN Outcome([op |-> op, entry |-> entry, counter |-> counter,
                  alias |-> name_to_assign_to_channel, range |-> range,
                  argtypes |-> argtypes, params |-> params,
                  args |-> args, native |-> 1, status |-> status,
                  checked |-> <<status>>,
                  outcome |-> "none", error |-> NoError, result |-> NoChannel,
                  events |-> <<"marshal", "native", "check">>,
                  before |-> <<>>],
                 check_for_error(status, warn_raises),
                 _create_chan(handle,
                              IF op = "add_ci_freq_chan"
                              THEN <<"F", "r", "e", "q">> ELSE counter,
                              name_to_assign_to_channel))
    ELSE ArgumentError(op, entry, argtypes, params, counter,
                       name_to_assign_to_channel, range)

\* The body every creation operation shares: the assignment of the native
\* function's argtypes, the native call with the marshalled arguments,
\* check_for_error on its status, then _create_chan.
Create(op, entry, argtypes, params, enums, args, counter, name_to_assign_to_channel, range, status, warn_raises) ==
    IF AllHaveValue(enums)
    THEN Outcome([op |-> op, entry |-> entry, counter |-> counter,
                  alias |-> name_to_assign_to_channel, range |-> range,
                  argtypes |-> argtypes, params |-> params,
                  args |-> args, native |-> 1, status |-> status,
                  checked |-> <<status>>,
                  outcome |-> "none", error |-> NoError, result |-> NoChannel,
                  events |-> <<"marshal", "native", "check">>,
                  before |-> <<>>],
                 check_for_error(status, warn_raises),
                 _create_chan(handle, counter, name_to_assign_to_channel))
    ELSE ArgumentError(op, entry, argtypes, params, counter,
                       name_to_assign_to_channel, range)

\* Variant of Registered: a channel whose name the collection already
\* holds is not added again.
Registered_Deduplicated(chs, call) ==
    IF call.outcome = "channel"
       /\ ~\E i \in 1..Len(chs) : chs[i].name = call.result.name
    THEN Register(chs, call.result)
    ELSE chs

\* Variant of Registered: the collection gains an entry for every call
\* that reached the driver, whether or not its status check passed.
Registered_BeforeCheck(chs, call) ==
    IF call.native = 1 THEN Register(chs, call.result) ELSE chs

\* The owning task's channel collection after a creation call: the
\* channel the call returned is registered; a call that raised leaves the
\* collection as it was.
Registered(chs, call) ==
    IF call.outcome = "channel" THEN Register(chs, call.result) ELSE chs

\* Variant of Deliver: the call leaves the collection with task handle 1.
Deliver_HandleReset(call) ==
    /\ last' = [call EXCEPT !.before = channels]
    /\ channels' = Registered(channels, call)
    /\ handle' = 1

\* The caller now holds the call's outcome, recorded with the collection
\* as it was before the call; the collection is as the registration of
\* the returned channel leaves it; the handle is untouched.
Deliver(call) ==
    /\ last' = [call EXCEPT !.before = channels]
    /\ channels' = Registered(channels, call)
    /\ UNCHANGED handle

\* A call can begin when the caller holds no pending outcome; the model
\* stops creating channels once the collection holds MaxChans of them.
CanCall == last.op = "none" /\ Len(channels) < MaxChans

\* The caller takes the returned channel or the raised error; the next call
\* can begin.
Return ==
    /\ last.op # "none"
    /\ last' = NoCall
    /\ UNCHANGED <<handle, channels>>

(***************************************************************************)
(* The creation operations.  Each draws the caller's arguments, assigns    *)
(* the argtypes of its native function, marshals the arguments in the      *)
(* order of its native call and runs Create.  cfg selects the declared     *)
(* defaults, another value of each option, a member of another enumeration *)
(* in each enumerated option, or an int in each enumerated option.  A      *)
(* numeric range is drawn around the declared default minimum and maximum. *)
(***************************************************************************)
\* The enumeration each parameter of an operation is declared with, in the
\* order of the parameters ("" for a parameter that is not enumerated).
DeclaredEnums ==
    [add_ci_ang_encoder_chan |->
         <<"EncoderType", "", "", "EncoderZIndexPhase", "AngleUnits", "",
           "", "">>,
     add_ci_ang_velocity_chan |->
         <<"", "", "EncoderType", "AngularVelocityUnits", "", "">>,
     add_ci_count_edges_chan |->
         <<"Edge", "", "CountDirection">>,
     add_ci_duty_cycle_chan |->
         <<"", "", "Edge", "">>,
     add_ci_freq_chan |->
         <<"", "", "FrequencyUnits", "Edge", "CounterFrequencyMethod", "",
           "", "">>,
     add_ci_gps_timestamp_chan |->
         <<"TimeUnits", "GpsSignalType", "">>,
     add_ci_lin_encoder_chan |->
         <<"EncoderType", "", "", "EncoderZIndexPhase", "LengthUnits", "",
           "", "">>,
     add_ci_lin_velocity_chan |->
         <<"", "", "EncoderType", "VelocityUnits", "", "">>,
     add_ci_period_chan |->
         <<"", "", "TimeUnits", "Edge", "CounterFrequencyMethod", "", "", "">>,
     add_ci_pulse_chan_freq |->
         <<"", "", "FrequencyUnits">>,
     add_ci_pulse_chan_ticks |->
         <<"", "", "">>,
     add_ci_pulse_chan_time |->
         <<"", "", "TimeUnits">>,
     add_ci_pulse_width_chan |->
         <<"", "", "TimeUnits", "Edge", "">>,
     add_ci_semi_period_chan |->
         <<"", "", "TimeUnits", "">>,
     add_ci_two_edge_sep_chan |->
         <<"", "", "TimeUnits", "Edge", "Edge", "">>]

PlainConfigs == {"default", "other"}

Configs == PlainConfigs \cup {"foreign", "raw"}

\* The argument for an enumerated option under cfg.
EnumArg(cfg, default, other, foreign) ==
    CASE cfg = "other" -> other
      [] cfg = "foreign" -> foreign
      [] cfg = "raw" -> PyInt(default.value)
      [] OTHER -> default

add_ci_ang_encoder_chan ==
    /\ CanCall
    /\ \E counter \in Specifiers, name_to_assign_to_channel \in Aliases,
          cfg \in Configs,
          status \in Statuses :
         \E warn_raises \in WarnPolicies(status) :
           LET decoding_type ==
                   EnumArg(cfg, EncoderType.X_4,
                           EncoderType.X_1, Edge.RISING)
               zidx_enable == IF cfg = "other" THEN TRUE ELSE FALSE
               zidx_val == IF cfg = "other" THEN F(5, 0) ELSE F(0, 0)
               zidx_phase ==
                   EnumArg(cfg, EncoderZIndexPhase.AHIGH_BHIGH,
                           EncoderZIndexPhase.ALOW_BLOW, Edge.RISING)
               units ==
                   EnumArg(cfg, AngleUnits.DEGREES,
                           AngleUnits.RADIANS, Edge.RISING)
               pulses_per_rev == IF cfg = "other" THEN 360 ELSE 24
               initial_angle == IF cfg = "other" THEN F(9, 1) ELSE F(0, 0)
               custom_scale_name == IF cfg = "other" THEN "scale1" ELSE ""
           IN  Deliver(Create("add_ci_ang_encoder_chan",
                      "DAQmxCreateCIAngEncoderChan",
                      <<"task_handle", "byte_str", "byte_str", "c_int",
                        "c_bool32", "c_double", "c_int", "c_int", "c_uint",
                        "c_double", "byte_str">>,
                      <<decoding_type, zidx_enable, zidx_val, zidx_phase,
                        units, pulses_per_rev, initial_angle,
                        custom_scale_name>>,
                      <<decoding_type, zidx_phase, units>>,
                      <<handle, counter, name_to_assign_to_channel,
                        decoding_type.value, zidx_enable, zidx_val,
                        zidx_phase.value, units.value, pulses_per_rev,
                        initial_angle, custom_scale_name>>,
                      counter, name_to_assign_to_channel, <<>>,
                      status, warn_raises))

\* Variant of add_ci_ang_velocity_chan: the native call receives max_val
\* in the place of min_val and min_val in the place of max_val.
add_ci_ang_velocity_chan_RangeSwapped ==
    /\ CanCall
    /\ \E counter \in Specifiers, name_to_assign_to_channel \in Aliases,
          r \in RangePairs(DefaultRange.add_ci_ang_velocity_chan[1],
                          DefaultRange.add_ci_ang_velocity_chan[2]), cfg \in Configs,
          status \in Statuses :
         \E warn_raises \in WarnPolicies(status) :
           LET min_val == r[1]
               max_val == r[2]
               decoding_type ==
                   EnumArg(cfg, EncoderType.X_4,
                           EncoderType.X_1, Edge.RISING)
               units ==
                   EnumArg(cfg, AngularVelocityUnits.RPM,
                           AngularVelocityUnits.RADIANS_PER_SECOND, Edge.RISING)
               pulses_per_rev == IF cfg = "other" THEN 360 ELSE 24
               custom_scale_name == IF cfg = "other" THEN "scale1" ELSE ""
           IN  Deliver(Create("add_ci_ang_velocity_chan",
                      "DAQmxCreateCIAngVelocityChan",
                      <<"task_handle", "byte_str", "byte_str", "c_double",
                        "c_double", "c_int", "c_int", "c_uint", "byte_str">>,
                      <<min_val, max_val, decoding_type, units,
                        pulses_per_rev, custom_scale_name>>,
                      <<decoding_type, units>>,
                      <<handle, counter, name_to_assign_to_channel, max_val,
                        min_val, decoding_type.value, units.value,
                        pulses_per_rev, custom_scale_name>>,
                      counter, name_to_assign_to_channel, <<min_val, max_val>>,
                      status, warn_raises))

add_ci_ang_velocity_chan ==
    /\ CanCall
    /\ \E counter \in Specifiers, name_to_assign_to_channel \in Aliases,
          r \in RangePairs(DefaultRange.add_ci_ang_velocity_chan[1],
                          DefaultRange.add_ci_ang_velocity_chan[2]), cfg \in Configs,
          status \in Statuses :
         \E warn_raises \in WarnPolicies(status) :
           LET min_val == r[1]
               max_val == r[2]
               decoding_type ==
                   EnumArg(cfg, EncoderType.X_4,
                           EncoderType.X_1, Edge.RISING)
               units ==
                   EnumArg(cfg, AngularVelocityUnits.RPM,
                           AngularVelocityUnits.RADIANS_PER_SECOND, Edge.RISING)
               pulses_per_rev == IF cfg = "other" THEN 360 ELSE 24
               custom_scale_name == IF cfg = "other" THEN "scale1" ELSE ""
           IN  Deliver(Create("add_ci_ang_velocity_chan",
                      "DAQmxCreateCIAngVelocityChan",
                      <<"task_handle", "byte_str", "byte_str", "c_double",
                        "c_double", "c_int", "c_int", "c_uint", "byte_str">>,
                      <<min_val, max_val, decoding_type, units,
                        pulses_per_rev, custom_scale_name>>,
                      <<decoding_type, units>>,
                      <<handle, counter, name_to_assign_to_channel, min_val,
                        max_val, decoding_type.value, units.value,
                        pulses_per_rev, custom_scale_name>>,
                      counter, name_to_assign_to_channel, <<min_val, max_val>>,
                      status, warn_raises))

add_ci_count_edges_chan ==
    /\ CanCall
    /\ \E counter \in Specifiers, name_to_assign_to_channel \in Aliases,
          cfg \in Configs,
          status \in Statuses :
         \E warn_raises \in WarnPolicies(status) :
           LET edge ==
                   EnumArg(cfg, Edge.RISING,
                           Edge.FALLING, TimeUnits.SECONDS)
               initial_count == IF cfg = "other" THEN 7 ELSE 0
               count_direction ==
                   EnumArg(cfg, CountDirection.COUNT_UP,
                           CountDirection.COUNT_DOWN, Edge.RISING)
           IN  Deliver(Create("add_ci_count_edges_chan",
                      "DAQmxCreateCICountEdgesChan",
                      <<"task_handle", "byte_str", "byte_str", "c_int",
                        "c_uint", "c_int">>,
                      <<edge, initial_count, count_direction>>,
                      <<edge, count_direction>>,
                      <<handle, counter, name_to_assign_to_channel,
                        edge.value, initial_count, count_direction.value>>,
                      counter, name_to_assign_to_channel, <<>>,
                      status, warn_raises))

add_ci_duty_cycle_chan ==
    /\ CanCall
    /\ \E counter \in Specifiers, name_to_assign_to_channel \in Aliases,
          r \in RangePairs(DefaultRange.add_ci_duty_cycle_chan[1],
                          DefaultRange.add_ci_duty_cycle_chan[2]), cfg \in Configs,
          status \in Statuses :
         \E warn_raises \in WarnPolicies(status) :
           LET min_freq == r[1]
               max_freq == r[2]
               edge ==
                   EnumArg(cfg, Edge.RISING,
                           Edge.FALLING, TimeUnits.SECONDS)
               custom_scale_name == IF cfg = "other" THEN "scale1" ELSE ""
           IN  Deliver(Create("add_ci_duty_cycle_chan",
                      "DAQmxCreateCIDutyCycleChan",
                      <<"task_handle", "byte_str", "byte_str", "c_double",
                        "c_double", "c_int", "byte_str">>,
                      <<min_freq, max_freq, edge, custom_scale_name>>,
                      <<edge>>,
                      <<handle, counter, name_to_assign_to_channel,
                        min_freq, max_freq, edge.value, custom_scale_name>>,
                      counter, name_to_assign_to_channel, <<min_freq, max_freq>>,
                      status, warn_raises))

add_ci_freq_chan ==
    /\ CanCall
    /\ \E counter \in Specifiers, name_to_assign_to_channel \in Aliases,
          r \in RangePairs(DefaultRange.add_ci_freq_chan[1],
                          DefaultRange.add_ci_freq_chan[2]), cfg \in Configs,
          status \in Statuses :
         \E warn_raises \in WarnPolicies(status) :
           LET min_val == r[1]
               max_val == r[2]
               units ==
                   EnumArg(cfg, FrequencyUnits.HZ,
                           FrequencyUnits.TICKS, Edge.RISING)
               edge ==
                   EnumArg(cfg, Edge.RISING,
                           Edge.FALLING, TimeUnits.SECONDS)
               meas_method ==
                   EnumArg(cfg, CounterFrequencyMethod.LOW_FREQUENCY_1_COUNTER,
                           CounterFrequencyMethod.HIGH_FREQUENCY_2_COUNTERS, Edge.RISING)
               meas_time == IF cfg = "other" THEN F(5, -2) ELSE F(1, -3)
               divisor == IF cfg = "other" THEN 8 ELSE 4
               custom_scale_name == IF cfg = "other" THEN "scale1" ELSE ""
           IN  Deliver(Create("add_ci_freq_chan",
                      "DAQmxCreateCIFreqChan",
                      <<"task_handle", "byte_str", "byte_str", "c_double",
                        "c_double", "c_int", "c_int", "c_int", "c_double",
                        "c_uint", "byte_str">>,
                      <<min_val, max_val, units, edge, meas_method,
                        meas_time, divisor, custom_scale_name>>,
                      <<units, edge, meas_method>>,
                      <<handle, counter, name_to_assign_to_channel, min_val,
                        max_val, units.value, edge.value, meas_method.value,
                        meas_time, divisor, custom_scale_name>>,
                      counter, name_to_assign_to_channel, <<min_val, max_val>>,
                      status, warn_raises))

add_ci_gps_timestamp_chan ==
    /\ CanCall
    /\ \E counter \in Specifiers, name_to_assign_to_channel \in Aliases,
          cfg \in Configs,
          status \in Statuses :
         \E warn_raises \in WarnPolicies(status) :
           LET units ==
                   EnumArg(cfg, TimeUnits.SECONDS,
                           TimeUnits.TICKS, Edge.RISING)
               sync_method ==
                   EnumArg(cfg, GpsSignalType.IRIGB,
                           GpsSignalType.PPS, Edge.RISING)
               custom_scale_name == IF cfg = "other" THEN "scale1" ELSE ""
           IN  Deliver(Create("add_ci_gps_timestamp_chan",
                      "DAQmxCreateCIGPSTimestampChan",
                      <<"task_handle", "byte_str", "byte_str", "c_int",
                        "c_int", "byte_str">>,
                      <<units, sync_method, custom_scale_name>>,
                      <<units, sync_method>>,
                      <<handle, counter, name_to_assign_to_channel,
                        units.value, sync_method.value, custom_scale_name>>,
                      counter, name_to_assign_to_channel, <<>>,
                      status, warn_raises))

add_ci_lin_encoder_chan ==
    /\ CanCall
    /\ \E counter \in Specifiers, name_to_assign_to_channel \in Aliases,
          cfg \in Configs,
          status \in Statuses :
         \E warn_raises \in WarnPolicies(status) :
           LET decoding_type ==
                   EnumArg(cfg, EncoderType.X_4,
                           EncoderType.X_1, Edge.RISING)
               zidx_enable == IF cfg = "other" THEN TRUE ELSE FALSE
               zidx_val == IF cfg = "other" THEN F(5, 0) ELSE F(0, 0)
               zidx_phase ==
                   EnumArg(cfg, EncoderZIndexPhase.AHIGH_BHIGH,
                           EncoderZIndexPhase.ALOW_BLOW, Edge.RISING)
               units ==
                   EnumArg(cfg, LengthUnits.METERS,
                           LengthUnits.INCHES, Edge.RISING)
               dist_per_pulse == IF cfg = "other" THEN F(2, -2) ELSE F(1, -3)
               initial_pos == IF cfg = "other" THEN F(3, 0) ELSE F(0, 0)
               custom_scale_name == IF cfg = "other" THEN "scale1" ELSE ""
           IN  Deliver(Create("add_ci_lin_encoder_chan",
                      "DAQmxCreateCILinEncoderChan",
                      <<"task_handle", "byte_str", "byte_str", "c_int",
                        "c_bool32", "c_double", "c_int", "c_int",
                        "c_double", "c_double", "byte_str">>,
                      <<decoding_type, zidx_enable, zidx_val, zidx_phase,
                        units, dist_per_pulse, initial_pos,
                        custom_scale_name>>,
                      <<decoding_type, zidx_phase, units>>,
                      <<handle, counter, name_to_assign_to_channel,
                        decoding_type.value, zidx_enable, zidx_val,
                        zidx_phase.value, units.value, dist_per_pulse,
                        initial_pos, custom_scale_name>>,
                      counter, name_to_assign_to_channel, <<>>,
                      status, warn_raises))

add_ci_lin_velocity_chan ==
    /\ CanCall
    /\ \E counter \in Specifiers, name_to_assign_to_channel \in Aliases,
          r \in RangePairs(DefaultRange.add_ci_lin_velocity_chan[1],
                          DefaultRange.add_ci_lin_velocity_chan[2]), cfg \in Configs,
          status \in Statuses :
         \E warn_raises \in WarnPolicies(status) :
           LET min_val == r[1]
               max_val == r[2]
               decoding_type ==
                   EnumArg(cfg, EncoderType.X_4,
                           EncoderType.X_1, Edge.RISING)
               units ==
                   EnumArg(cfg, VelocityUnits.METERS_PER_SECOND,
                           VelocityUnits.INCHES_PER_SECOND, Edge.RISING)
               dist_per_pulse == IF cfg = "other" THEN F(2, -2) ELSE F(1, -3)
               custom_scale_name == IF cfg = "other" THEN "scale1" ELSE ""
           IN  Deliver(Create("add_ci_lin_velocity_chan",
                      "DAQmxCreateCILinVelocityChan",
                      <<"task_handle", "byte_str", "byte_str", "c_double",
                        "c_double", "c_int", "c_int", "c_double", "byte_str">>,
                      <<min_val, max_val, decoding_type, units,
                        dist_per_pulse, custom_scale_name>>,
                      <<decoding_type, units>>,
                      <<handle, counter, name_to_assign_to_channel, min_val,
                        max_val, decoding_type.value, units.value,
                        dist_per_pulse, custom_scale_name>>,
                      counter, name_to_assign_to_channel, <<min_val, max_val>>,
                      status, warn_raises))

add_ci_period_chan ==
    /\ CanCall
    /\ \E counter \in Specifiers, name_to_assign_to_channel \in Aliases,
          r \in RangePairs(DefaultRange.add_ci_period_chan[1],
                          DefaultRange.add_ci_period_chan[2]), cfg \in Configs,
          status \in Statuses :
         \E warn_raises \in WarnPolicies(status) :
           LET min_val == r[1]
               max_val == r[2]
               units ==
                   EnumArg(cfg, TimeUnits.SECONDS,
                           TimeUnits.TICKS, Edge.RISING)
               edge ==
                   EnumArg(cfg, Edge.RISING,
                           Edge.FALLING, TimeUnits.SECONDS)
               meas_method ==
                   EnumArg(cfg, CounterFrequencyMethod.LOW_FREQUENCY_1_COUNTER,
                           CounterFrequencyMethod.HIGH_FREQUENCY_2_COUNTERS, Edge.RISING)
               meas_time == IF cfg = "other" THEN F(5, -2) ELSE F(1, -3)
               divisor == IF cfg = "other" THEN 8 ELSE 4
               custom_scale_name == IF cfg = "other" THEN "scale1" ELSE ""
           IN  Deliver(Create("add_ci_period_chan",
                      "DAQmxCreateCIPeriodChan",
                      <<"task_handle", "byte_str", "byte_str", "c_double",
                        "c_double", "c_int", "c_int", "c_int", "c_double",
                        "c_uint", "byte_str">>,
                      <<min_val, max_val, units, edge, meas_method,
                        meas_time, divisor, custom_scale_name>>,
                      <<units, edge, meas_method>>,
                      <<handle, counter, name_to_assign_to_channel, min_val,
                        max_val, units.value, edge.value, meas_method.value,
                        meas_time, divisor, custom_scale_name>>,
                      counter, name_to_assign_to_channel, <<min_val, max_val>>,
                      status, warn_raises))

add_ci_pulse_chan_freq ==
    /\ CanCall
    /\ \E counter \in Specifiers, name_to_assign_to_channel \in Aliases,
          r \in RangePairs(DefaultRange.add_ci_pulse_chan_freq[1],
                          DefaultRange.add_ci_pulse_chan_freq[2]), cfg \in Configs,
          status \in Statuses :
         \E warn_raises \in WarnPolicies(status) :
           LET min_val == r[1]
               max_val == r[2]
               units ==
                   EnumArg(cfg, FrequencyUnits.HZ,
                           FrequencyUnits.TICKS, Edge.RISING)
           IN  Deliver(Create("add_ci_pulse_chan_freq",
                      "DAQmxCreateCIPulseChanFreq",
                      <<"task_handle", "byte_str", "byte_str", "c_double",
                        "c_double", "c_int">>,
                      <<min_val, max_val, units>>,
                      <<units>>,
                      <<handle, counter, name_to_assign_to_channel, min_val,
                        max_val, units.value>>,
                      counter, name_to_assign_to_channel, <<min_val, max_val>>,
                      status, warn_raises))

add_ci_pulse_chan_ticks ==
    /\ CanCall
    /\ \E counter \in Specifiers, name_to_assign_to_channel \in Aliases,
          r \in RangePairs(DefaultRange.add_ci_pulse_chan_ticks[1],
                          DefaultRange.add_ci_pulse_chan_ticks[2]), cfg \in PlainConfigs,
          status \in Statuses :
         \E warn_raises \in WarnPolicies(status) :
           LET source_terminal == IF cfg = "other" THEN "PFI0" ELSE "OnboardClock"
               min_val == r[1]
               max_val == r[2]
           IN  Deliver(Create("add_ci_pulse_chan_ticks",
                      "DAQmxCreateCIPulseChanTicks",
                      <<"task_handle", "byte_str", "byte_str", "byte_str",
                        "c_double", "c_double">>,
                      <<source_terminal, min_val, max_val>>,
                      <<>>,
                      <<handle, counter, name_to_assign_to_channel,
                        source_terminal, min_val, max_val>>,
                      counter, name_to_assign_to_channel, <<min_val, max_val>>,
                      status, warn_raises))

add_ci_pulse_chan_time ==
    /\ CanCall
    /\ \E counter \in Specifiers, name_to_assign_to_channel \in Aliases,
          r \in RangePairs(DefaultRange.add_ci_pulse_chan_time[1],
                          DefaultRange.add_ci_pulse_chan_time[2]), cfg \in Configs,
          status \in Statuses :
         \E warn_raises \in WarnPolicies(status) :
           LET min_val == r[1]
               max_val == r[2]
               units ==
                   EnumArg(cfg, TimeUnits.SECONDS,
                           TimeUnits.TICKS, Edge.RISING)
           IN  Deliver(Create("add_ci_pulse_chan_time",
                      "DAQmxCreateCIPulseChanTime",
                      <<"task_handle", "byte_str", "byte_str", "c_double",
                        "c_double", "c_int">>,
                      <<min_val, max_val, units>>,
                      <<units>>,
                      <<handle, counter, name_to_assign_to_channel, min_val,
                        max_val, units.value>>,
                      counter, name_to_assign_to_channel, <<min_val, max_val>>,
                      status, warn_raises))

add_ci_pulse_width_chan ==
    /\ CanCall
    /\ \E counter \in Specifiers, name_to_assign_to_channel \in Aliases,
          r \in RangePairs(DefaultRange.add_ci_pulse_width_chan[1],
                          DefaultRange.add_ci_pulse_width_chan[2]), cfg \in Configs,
          status \in Statuses :
         \E warn_raises \in WarnPolicies(status) :
           LET min_val == r[1]
               max_val == r[2]
               units ==
                   EnumArg(cfg, TimeUnits.SECONDS,
                           TimeUnits.TICKS, Edge.RISING)
               starting_edge ==
                   EnumArg(cfg, Edge.RISING,
                           Edge.FALLING, TimeUnits.SECONDS)
               custom_scale_name == IF cfg = "other" THEN "scale1" ELSE ""
           IN  Deliver(Create("add_ci_pulse_width_chan",
                      "DAQmxCreateCIPulseWidthChan",
                      <<"task_handle", "byte_str", "byte_str", "c_double",
                        "c_double", "c_int", "c_int", "byte_str">>,
                      <<min_val, max_val, units, starting_edge,
                        custom_scale_name>>,
                      <<units, starting_edge>>,
                      <<handle, counter, name_to_assign_to_channel, min_val,
                        max_val, units.value, starting_edge.value,
                        custom_scale_name>>,
                      counter, name_to_assign_to_channel, <<min_val, max_val>>,
                      status, warn_raises))

add_ci_semi_period_chan ==
    /\ CanCall
    /\ \E counter \in Specifiers, name_to_assign_to_channel \in Aliases,
          r \in RangePairs(DefaultRange.add_ci_semi_period_chan[1],
                          DefaultRange.add_ci_semi_period_chan[2]), cfg \in Configs,
          status \in Statuses :
         \E warn_raises \in WarnPolicies(status) :
           LET min_val == r[1]
               max_val == r[2]
               units ==
                   EnumArg(cfg, TimeUnits.SECONDS,
                           TimeUnits.TICKS, Edge.RISING)
               custom_scale_name == IF cfg = "other" THEN "scale1" ELSE ""
           IN  Deliver(Create("add_ci_semi_period_chan",
                      "DAQmxCreateCISemiPeriodChan",
                      <<"task_handle", "byte_str", "byte_str", "c_double",
                        "c_double", "c_int", "byte_str">>,
                      <<min_val, max_val, units, custom_scale_name>>,
                      <<units>>,
                      <<handle, counter, name_to_assign_to_channel, min_val,
                        max_val, units.value, custom_scale_name>>,
                      counter, name_to_assign_to_channel, <<min_val, max_val>>,
                      status, warn_raises))

add_ci_two_edge_sep_chan ==
    /\ CanCall
    /\ \E counter \in Specifiers, name_to_assign_to_channel \in Aliases,
          r \in RangePairs(DefaultRange.add_ci_two_edge_sep_chan[1],
                          DefaultRange.add_ci_two_edge_sep_chan[2]), cfg \in Configs,
          status \in Statuses :
         \E warn_raises \in WarnPolicies(status) :
           LET min_val == r[1]
               max_val == r[2]
               units ==
                   EnumArg(cfg, TimeUnits.SECONDS,
                           TimeUnits.TICKS, Edge.RISING)
               first_edge ==
                   EnumArg(cfg, Edge.RISING,
                           Edge.FALLING, TimeUnits.SECONDS)
               second_edge ==
                   EnumArg(cfg, Edge.FALLING,
                           Edge.RISING, TimeUnits.SECONDS)
               custom_scale_name == IF cfg = "other" THEN "scale1" ELSE ""
           IN  Deliver(Create("add_ci_two_edge_sep_chan",
                      "DAQmxCreateCITwoEdgeSepChan",
                      <<"task_handle", "byte_str", "byte_str", "c_double",
                        "c_double", "c_int", "c_int", "c_int", "byte_str">>,
                      <<min_val, max_val, units, first_edge, second_edge,
                        custom_scale_name>>,
                      <<units, first_edge, second_edge>>,
                      <<handle, counter, name_to_assign_to_channel, min_val,
                        max_val, units.value, first_edge.value,
                        second_edge.value, custom_scale_name>>,
                      counter, name_to_assign_to_channel, <<min_val, max_val>>,
                      status, warn_raises))


Next ==
    \/ add_ci_ang_encoder_chan
    \/ add_ci_ang_velocity_chan
    \/ add_ci_count_edges_chan
    \/ add_ci_duty_cycle_chan
    \/ add_ci_freq_chan
    \/ add_ci_gps_timestamp_chan
    \/ add_ci_lin_encoder_chan
    \/ add_ci_lin_velocity_chan
    \/ add_ci_period_chan
    \/ add_ci_pulse_chan_freq
    \/ add_ci_pulse_chan_ticks
    \/ add_ci_pulse_chan_time
    \/ add_ci_pulse_width_chan
    \/ add_ci_semi_period_chan
    \/ add_ci_two_edge_sep_chan
    \/ Return

Spec == Init /\ [][Next]_vars

(***************************************************************************)
(* Properties.                                                             *)
(***************************************************************************)
Called == last.op # "none"

Returned == last.outcome = "channel"

\* The expansion of the last call's counter string.
LastExpansion == unflatten_channel_string(last.counter)

\* The part of the returned name that follows the name to assign.
LastSuffix ==
    SubSeq(last.result.name, Len(last.alias) + 1, Len(last.result.name))

MyCtr0to3 == <<"m", "y", "c", "t", "r", "0", ":", "3">>

MyCtr0to10 == <<"m", "y", "c", "t", "r", "0", ":", "1", "0">>

\* C1: when a channel is returned for a non-empty name to assign and a
\* counter string that expands to N > 1 channels, the channel's name is the
\* name to assign, then "0:", then N-1 in decimal (no leading zero); for
\* "Dev1/ctr0:3" and "myctr" it is "myctr0:3".
C1_MultiChannelName ==
    /\ (Returned /\ last.alias # <<>> /\ ~LastExpansion.err
            /\ Len(LastExpansion.names) > 1)
        => /\ Len(last.result.name) >= Len(last.alias) + 3
           /\ SubSeq(last.result.name, 1, Len(last.alias)) = last.alias
           /\ LastSuffix[1] = "0"
           /\ LastSuffix[2] = ":"
           /\ AllDigits(SubSeq(LastSuffix, 3, Len(LastSuffix)))
           /\ (Len(LastSuffix) > 3 => LastSuffix[3] # "0")
           /\ ParseNat(SubSeq(LastSuffix, 3, Len(LastSuffix)))
                  = Len(LastExpansion.names) - 1
    /\ (Returned /\ last.alias = MyCtr /\ last.counter = Dev1Ctr0to3)
        => last.result.name = MyCtr0to3

\* A channel named "myctr0:10" was returned for the eleven counters of
\* "ctr0:9,ctr12".
C1_Witness ==
    /\ Returned
    /\ last.alias = MyCtr
    /\ last.counter = Ctr0to9Ctr12
    /\ Len(LastExpansion.names) = 11
    /\ last.result.name = MyCtr0to10

\* C2: when a channel is returned for a non-empty name to assign and a
\* counter string that expands to exactly one channel, the channel's name is
\* the name to assign, unchanged.
C2_SingleChannelName ==
    (Returned /\ last.alias # <<>> /\ ~LastExpansion.err
        /\ Len(LastExpansion.names) = 1)
    => last.result.name = last.alias

\* A channel named "myctr" was returned for the single counter "ctr0".
C2_Witness ==
    /\ Returned
    /\ last.alias = MyCtr
    /\ last.counter = Ctr0
    /\ LastExpansion.names = <<Ctr0>>
    /\ last.result.name = MyCtr

\* C3: when a channel is returned and no name to assign was given, the
\* channel's name is the counter string, character for character.
C3_NoAliasName ==
    (Returned /\ last.alias = <<>>) => last.result.name = last.counter

\* A channel named "ctr0:9,ctr12" was returned for that counter string and
\* no name to assign.
C3_Witness ==
    /\ Returned
    /\ last.alias = <<>>
    /\ last.counter = Ctr0to9Ctr12
    /\ last.result.name = Ctr0to9Ctr12

\* The resolved name of the name resolution contract, where it has one.
Resolvable(counter, alias) ==
    alias = <<>> \/ ~unflatten_channel_string(counter).err

Resolved(counter, alias) ==
    IF alias = <<>> THEN counter
    ELSE IF Len(unflatten_channel_string(counter).names) > 1
    THEN alias \o <<"0", ":">>
             \o ToDecimal(Len(unflatten_channel_string(counter).names) - 1)
    ELSE alias

\* C4: whenever the driver returned status 0, the creation operation
\* returned a channel whose name is the resolved name and whose handle is
\* the collection's handle.
C4_SuccessResult ==
    (Called /\ last.native = 1 /\ last.status = 0)
    => /\ Returned
       /\ Resolvable(last.counter, last.alias)
       /\ last.result.name = Resolved(last.counter, last.alias)
       /\ last.result.handle = handle

\* C5: whenever the driver returned a negative status, the creation
\* operation raised an error carrying that status and the driver's message
\* for it ("bad terminal" for -1), and no channel was constructed.
C5_DriverError ==
    (Called /\ last.native = 1 /\ last.status < 0)
    => /\ last.outcome = "DaqError"
       /\ last.error.code = last.status
       /\ last.error.message = ErrorLookup(last.status)
       /\ (last.status = -1 => last.error.message = "bad terminal")
       /\ last.result = NoChannel
       /\ \A i \in 1..Len(last.events) : last.events[i] # "construct"

\* A call failed with driver status -1: the error raised carries -1 and
\* "bad terminal", and no channel was returned.
C5_Witness ==
    /\ Called
    /\ last.status = -1
    /\ last.outcome = "DaqError"
    /\ last.error = [code |-> -1, message |-> "bad terminal"]
    /\ last.result = NoChannel

C7_RegisteredOnSuccess ==
    [][/\ (last.op = "none" /\ last'.native = 1 /\ last'.status = 0)
          => /\ last'.outcome = "channel"
             /\ channels' = Append(channels, last'.result)
       /\ \A i \in 1..Len(channels) :
            Len(channels') >= i /\ channels'[i] = channels[i]]_vars

\* C8: a creation operation called with a malformed range specifier raised
\* MalformedSpecifierError, with or without a name to assign (stated for the
\* calls the driver did not itself reject).
C8_MalformedRejected ==
    (Called /\ LastExpansion.err /\ last.status = 0)
    => last.outcome = "MalformedSpecifierError"

\* C9: whenever a creation operation failed with a local validation error,
\* it had made no native call.
C9_ValidationBeforeNative ==
    last.outcome = "MalformedSpecifierError" => last.native = 0

\* a < b for numbers m * 10^e with one-digit m.
Lt(a, b) ==
    IF a.m = 0 THEN b.m > 0
    ELSE IF b.m = 0 THEN FALSE
    ELSE a.e < b.e \/ (a.e = b.e /\ a.m < b.m)

\* C10: a creation operation called with a numeric range whose minimum is
\* not below its maximum returned no channel.
C10_RangePrecondition ==
    (Called /\ last.range # <<>> /\ ~Lt(last.range[1], last.range[2]))
    => ~Returned

\* The returned channel's name, read as a channel string.
ResultExpansion == unflatten_channel_string(last.result.name)

NoRepeats(ns) == \A i, j \in 1..Len(ns) : ns[i] = ns[j] => i = j

\* C11: whenever a creation operation returned a channel for a name to
\* assign and a counter string of N > 1 names, the returned name, expanded
\* as a channel string, denotes exactly N pairwise distinct names.
C11_MultiNameExpands ==
    (Returned /\ last.alias # <<>> /\ Len(LastExpansion.names) > 1)
    => /\ ~ResultExpansion.err
       /\ Len(ResultExpansion.names) = Len(LastExpansion.names)
       /\ NoRepeats(ResultExpansion.names)

\* C12 as stated: the string in the name place of the native call is the
\* name of the returned channel.
C12_NativeNameIsResolved ==
    (Called /\ last.native = 1 /\ Returned) => last.args[3] = last.result.name

\* C12: the string in the name place of the native call is the name to
\* assign as the caller gave it, empty if none was given; it is the name of
\* the returned channel exactly when it is not empty and the counter string
\* names a single channel.
C12_NativeNameIsAlias ==
    (Called /\ last.native = 1)
    => /\ last.args[3] = last.alias
       /\ Returned => ((last.args[3] = last.result.name)
                       <=> (last.alias # <<>> /\ Len(LastExpansion.names) = 1))

\* A call for four counters returned the channel myctr0:3 after handing
\* the driver the name myctr.
C12_Witness ==
    /\ Returned
    /\ last.native = 1
    /\ last.counter = Dev1Ctr0to3
    /\ last.args[3] = MyCtr
    /\ last.result.name = MyCtr0to3

\* C13: the native call of every creation operation received as many values
\* as the argtypes declare: the task handle, the counter string and the
\* name to assign in places 1 to 3, then the operation's parameters in
\* their declared order, an enumerated one as its integer value and every
\* other one as the caller supplied it.
C13_Marshalling ==
    (Called /\ last.native = 1)
    => /\ Len(last.args) = Len(last.argtypes)
       /\ Len(last.args) = Len(last.params) + 3
       /\ last.args[1] = handle
       /\ last.args[2] = last.counter
       /\ last.args[3] = last.alias
       /\ \A i \in 1..Len(last.params) :
            IF last.argtypes[i + 3] = "c_int"
            THEN last.args[i + 3] = last.params[i].value
            ELSE last.args[i + 3] = last.params[i]

\* add_ci_ang_velocity_chan was called with other values than the defaults
\* and its native call received the eleven values in the declared order.
C13_Witness ==
    /\ last.op = "add_ci_ang_velocity_chan"
    /\ last.native = 1
    /\ last.argtypes = <<"task_handle", "byte_str", "byte_str", "c_double",
                         "c_double", "c_int", "c_int", "c_uint", "byte_str">>
    /\ last.args = <<handle, Ctr0, MyCtr, F(0, 0), F(1, 0),
                     EncoderType.X_1.value,
                     AngularVelocityUnits.RADIANS_PER_SECOND.value,
                     360, "scale1">>

\* The native calls among the steps of the last call.
NativeCalls ==
    Cardinality({i \in 1..Len(last.events) : last.events[i] = "native"})

\* C14: every creation operation called its native entry point at most
\* once, and a negative status of that one call was raised to the caller as
\* the operation's error.
C14_NoRetry ==
    Called
    => /\ last.native <= 1
       /\ NativeCalls = last.native
       /\ (last.native = 1 /\ last.status < 0)
          => (last.outcome = "DaqError" /\ last.error.code = last.status)

\* A call whose one native call returned -1 raised the error after that
\* single call.
C14_Witness ==
    /\ Called
    /\ last.status = -1
    /\ last.native = 1
    /\ last.events = <<"marshal", "native", "check">>
    /\ last.outcome = "DaqError"

\* C15: every status the driver returned, zero, negative or positive, was
\* handed to check_for_error right after the native call and before any
\* channel was constructed.
C15_StatusAlwaysChecked ==
    (Called /\ last.native = 1)
    => /\ last.checked = <<last.status>>
       /\ SubSeq(last.events, 1, 3) = <<"marshal", "native", "check">>
       /\ \A i \in 1..Len(last.events) : last.events[i] = "construct" => i > 3

\* A call whose native call returned a positive status handed it to
\* check_for_error, was let through and returned a channel.
C15_Witness ==
    /\ Returned
    /\ last.status = 1
    /\ last.checked = <<1>>
    /\ last.events[3] = "check"

\* Whether x is a member of the enumeration named e.
IsMember(x, e) == HasValue(x) /\ x.enum = e

\* C16: a creation operation called with a value that is not a member of
\* the enumeration its parameter is declared with made no native call and
\* returned no channel.
C16_EnumClosedSet ==
    (/\ Called
     /\ \E i \in 1..Len(last.params) :
          /\ DeclaredEnums[last.op][i] # ""
          /\ ~IsMember(last.params[i], DeclaredEnums[last.op][i]))
    => (last.native = 0 /\ ~Returned)

\* C17: whenever a creation operation raised, the driver had not created a
\* channel for it: its native call, if made, had not returned status 0.
C17_NoPartialChannel ==
    (Called /\ ~Returned) => ~(last.native = 1 /\ last.status = 0)

\* C18: a creation operation wrote nothing that calls share besides the
\* collection: it assigned no argtypes to a native function of the library.
C18_NoSharedWrites ==
    Called => last.argtypes = <<>>

DigitChars == <<"0", "1", "2", "3", "4", "5", "6", "7", "8", "9">>

\* C19: the expansion of a counter string keeps order and loses nothing: a
\* range a:b with a <= b gives its b - a + 1 names in ascending order, a
\* comma list gives the names of its parts in the order of the parts, no
\* name is repeated, and a malformed string gives no names ("Dev1/ctr0:3"
\* gives four names, "ctr0:9,ctr12" eleven).
C19_ExpansionOrderLossless ==
    Called
    => /\ last.counter = Ctr0 => LastExpansion = Expanded(<<Ctr0>>)
       /\ last.counter = Dev1Ctr0to3
          => /\ ~LastExpansion.err
             /\ Len(LastExpansion.names) = 4
             /\ \A i \in 1..4 :
                  LastExpansion.names[i]
                      = <<"D", "e", "v", "1", "/", "c", "t", "r", DigitChars[i]>>
       /\ last.counter = Ctr0to9Ctr12
          => /\ ~LastExpansion.err
             /\ Len(LastExpansion.names) = 11
             /\ \A i \in 1..10 :
                  LastExpansion.names[i] = <<"c", "t", "r", DigitChars[i]>>
             /\ LastExpansion.names[11] = <<"c", "t", "r", "1", "2">>
       /\ NoRepeats(LastExpansion.names)
       /\ LastExpansion.err => LastExpansion.names = <<>>

\* A call for "Dev1/ctr0:3" with a name to assign returned a channel named
\* for the four names of the expansion.
C19_Witness ==
    /\ Returned
    /\ last.counter = Dev1Ctr0to3
    /\ last.alias = MyCtr
    /\ Len(LastExpansion.names) = 4
    /\ LastExpansion.names[4] = <<"D", "e", "v", "1", "/", "c", "t", "r", "3">>
    /\ last.result.name = MyCtr0to3

\* C20: a creation operation whose native call returned status 0 and whose
\* resolved name some channel of the collection already had returned a
\* channel of that name and appended it to the collection, which then holds
\* both.
C20_DuplicatesKept ==
    (/\ Called
     /\ last.native = 1
     /\ last.status = 0
     /\ Resolvable(last.counter, last.alias)
     /\ \E i \in 1..Len(last.before) :
          last.before[i].name = Resolved(last.counter, last.alias))
    => /\ Returned
       /\ last.result.name = Resolved(last.counter, last.alias)
       /\ channels = Append(last.before, last.result)

\* Two successive successful calls with the same counter string and name to
\* assign left two channels of the same name in the collection.
C20_Witness ==
    /\ Returned
    /\ last.status = 0
    /\ Len(channels) = 2
    /\ Len(last.before) = 1
    /\ channels[1].name = channels[2].name
    /\ channels[2] = last.result

\* The place of a step in the order validation and normalization, native
\* call, status translation, channel construction.
StepRank(ev) ==
    CASE ev \in {"marshal", "parse"} -> 1
      [] ev = "native" -> 2
      [] ev = "check" -> 3
      [] OTHER -> 4

\* C21: the steps of every creation operation occurred in the order
\* argument validation and normalization (specifier parsing and name
\* resolution included), native call, status translation, channel
\* construction.
C21_StepOrder ==
    Called
    => \A i, j \in 1..Len(last.events) :
         StepRank(last.events[i]) < StepRank(last.events[j]) => i < j

\* Whether the last call parsed its counter string.
Parsed == \E i \in 1..Len(last.events) : last.events[i] = "parse"

\* C22: a creation operation whose status check passed parsed the counter
\* string if and only if a name to assign was given; it raised a specifier
\* error only for a given name and a malformed counter string; and with no
\* name to assign and driver status 0 it returned a channel named exactly
\* as the counter string, whatever the form of that string.
C22_ParsesOnlyWithAlias ==
    (Called /\ last.native = 1)
    => /\ last.outcome # "DaqError" => (Parsed <=> last.alias # <<>>)
       /\ last.outcome = "DaqError" => ~Parsed
       /\ last.outcome = "MalformedSpecifierError"
          => (last.alias # <<>> /\ LastExpansion.err)
       /\ (last.alias = <<>> /\ last.status = 0)
          => (Returned /\ last.result.name = last.counter)

\* A call without a name to assign and with the malformed counter string
\* "ctrX:2" returned a channel of that name without parsing.
C22_Witness ==
    /\ Returned
    /\ last.status = 0
    /\ last.alias = <<>>
    /\ last.counter = CtrXto2
    /\ LastExpansion.err
    /\ ~Parsed
    /\ last.result.name = CtrXto2

\* C23: the name of a returned channel is determined by the counter string
\* and the name to assign alone, whatever the operation, its other
\* arguments and the channels created before; so two calls with the same
\* counter string and name to assign return channels of the same name.
C23_NameFromSpecifierAndAlias ==
    Returned
    => /\ last.result.name = Resolved(last.counter, last.alias)
       /\ \A i \in 1..Len(channels) :
            channels[i].name \in {Resolved(c, a) : c \in Specifiers, a \in Aliases}

\* add_ci_two_edge_sep_chan, called with other values than the defaults,
\* returned a channel of the name an earlier call had returned.
C23_Witness ==
    /\ Returned
    /\ last.op = "add_ci_two_edge_sep_chan"
    /\ last.params[3] = TimeUnits.TICKS
    /\ last.range = <<F(1, -6), F(1, -6)>>
    /\ last.counter = Ctr0to9Ctr12
    /\ last.result.name = MyCtr0to10
    /\ Len(last.before) = 1
    /\ last.before[1].name = MyCtr0to10

\* C24: no step changes the task handle or a channel already in the
\* collection, and every channel of the collection carries the handle the
\* collection was constructed with.
C24_HandleUnchanged ==
    /\ [](\A i \in 1..Len(channels) : channels[i].handle = handle)
    /\ [](Returned => last.result.handle = handle)
    /\ [][/\ handle' = handle
          /\ \A i \in 1..Len(channels) : channels'[i] = channels[i]]_vars

\* A collection constructed with handle 2 returned a second channel: both
\* channels carry handle 2 and the first is as it was before the call.
C24_Witness ==
    /\ handle = 2
    /\ Returned
    /\ Len(channels) = 2
    /\ channels[1].handle = 2
    /\ last.result.handle = 2
    /\ channels[1] = last.before[1]

\* C25: a creation operation called with the declared default minimum and
\* maximum of its numeric range was called with a minimum strictly below
\* the maximum.
C25_DefaultRangeOrdered ==
    (Called /\ last.range # <<>> /\ last.range = DefaultRange[last.op])
    => Lt(last.range[1], last.range[2])

\* add_ci_duty_cycle_chan was called with its default range 2.0 to 10000.0
\* and returned a channel.
C25_Witness ==
    /\ Returned
    /\ last.op = "add_ci_duty_cycle_chan"
    /\ last.range = <<F(2, 0), F(1, 4)>>
    /\ last.range = DefaultRange.add_ci_duty_cycle_chan

\* C26: every creation operation ended in exactly one of two ways: it
\* returned a channel and raised no error, or it raised an error and
\* returned no channel; it called the driver at most once.
C26_ExactlyOneOutcome ==
    Called
    => /\ \/ /\ last.outcome = "channel"
             /\ last.result # NoChannel
             /\ last.error = NoError
          \/ /\ last.outcome \in {"DaqError", "MalformedSpecifierError",
                                  "AttributeError"}
             /\ last.result = NoChannel
       /\ last.outcome = "DaqError" <=> last.error # NoError
       /\ NativeCalls <= 1

\* A call whose driver status 1 was raised as an error ended with the
\* error and no channel.
C26_Witness ==
    /\ Called
    /\ last.status = 1
    /\ last.outcome = "DaqError"
    /\ last.error.code = 1
    /\ last.result = NoChannel

====
